---- MODULE Spec2Model ----
(***************************************************************************)
(* Model of headInjuryCriteria.py: calculate_HIC (the windowed search for  *)
(* the Head Injury Criterion) and plotHIC (the Abaqus CAE driver that runs *)
(* it on every acceleration curve of the displayed XY plot).               *)
(*                                                                         *)
(* Arithmetic.  Times and accelerations are integers.  The trapezoidal     *)
(* integral of integer samples over integer times is a multiple of 1/2, so *)
(* every integral is carried doubled (cumintegral, integ hold 2 x value).  *)
(* A HIC value d*(delta/d)^2.5 is carried as the exact rational            *)
(* num/den = (2*delta)^5 / d^3 = 32 * HIC^2, which orders and equates      *)
(* non-negative HIC values exactly as the real numbers do.  Floating point *)
(* rounding is not modelled.                                               *)
(*                                                                         *)
(* The duration grid np.linspace(tmin, tmax, 100) is modelled with         *)
(* NumSteps points, and tmax - tmin is drawn as a multiple of NumSteps - 1 *)
(* so that every duration is an integer.                                   *)
(*                                                                         *)
(* plotHIC.  Curves carry their abscissae in the user's time unit and      *)
(* their ordinates as multiples of gs (line 87), so accel/gs is the stored *)
(* integer and lengthUnit does not appear.  One loop iteration, with the   *)
(* modal getWarningReply dialog and its answer, is one step.  An exception *)
(* leaving plotHIC is the state ppc = "raised".                            *)
(***************************************************************************)
EXTENDS Integers, Sequences, FiniteSets, TLC

\* ---------------------------------------------------------------- bounds
MaxSamples == 4      \* longest sample series given to calculate_HIC
NumSteps == 3        \* points of the duration grid (100 in the source)
MaxCurves == 3       \* most curves in the chart when plotHIC is first called
MaxRuns == 2         \* most invocations of plotHIC in one session

VARIABLES
  time, g, tmax, tmin,      \* arguments of calculate_HIC
  cumintegral, dt, maxHIC,  \* its locals
  i,                        \* position of the loop over zip(time, cumintegral)
  pc,                       \* "call", "assert", "loop", "done", "raised"
  displayed,                \* what vp.displayedObject is: "XYPlot" or "Part"
  xyDataObjects,            \* session.xyDataObjects: name -> XYData
  curves,                   \* chart.curves.values(), in order
  timeUnit, ptmin, ptmax,   \* arguments of plotHIC
  loopCurves,               \* the list the for loop of plotHIC walks
  curveIdx,                 \* position of that loop
  reply,                    \* "None", "YES" or "NO"
  dialogs,                  \* the getWarningReply calls of this invocation
  runs,                     \* invocations of plotHIC so far
  ppc                       \* "idle", "loop", "returned", "raised"

calcVars == <<time, g, tmax, tmin, cumintegral, dt, maxHIC, i, pc>>
plotVars == <<displayed, xyDataObjects, curves, timeUnit, ptmin, ptmax,
              loopCurves, curveIdx, reply, dialogs, runs, ppc>>
vars == <<calcVars, plotVars>>

\* ------------------------------------------------------- numpy and scipy
\* a numpy array: the values of f at 1..n, computed once, as a tuple
Array(f) == <<>> \o f

RECURSIVE cumtrapz(_, _, _)
\* scipy.integrate.cumtrapz(y, x, initial=0), doubled, for the first n samples
cumtrapz(y, x, n) ==
  IF n = 0 THEN <<>>
  ELSE IF n = 1 THEN <<0>>
  ELSE LET prev == cumtrapz(y, x, n - 1)
       IN  Append(prev, prev[n - 1] + (y[n - 1] + y[n]) * (x[n] - x[n - 1]))

\* linspace started one step late
linspaceLate(start, stop) ==
  Array([k \in 1..NumSteps |-> start + (k * (stop - start)) \div (NumSteps - 1)])

\* np.linspace(start, stop, NumSteps); the inputs keep every point an integer
linspace(start, stop) ==
  Array([k \in 1..NumSteps |->
           start + ((k - 1) * (stop - start)) \div (NumSteps - 1)])

\* interp continuing the last segment beyond the last sample
interpExtrapolate(x, xp, fp) ==
  LET n == Len(xp)
  IN  IF x <= xp[1] \/ n = 1 THEN fp[1]
      ELSE LET j == IF x >= xp[n] THEN n - 1
                    ELSE CHOOSE j \in 1..(n - 1) : xp[j] <= x /\ x < xp[j + 1]
           IN  fp[j] + ((fp[j + 1] - fp[j]) * (x - xp[j])) \div (xp[j + 1] - xp[j])

\* np.interp(x, xp, fp): linear between the samples, fp[first] and fp[last] outside
interp(x, xp, fp) ==
  LET n == Len(xp)
  IN  IF x <= xp[1] THEN fp[1]
      ELSE IF x >= xp[n] THEN fp[n]
      ELSE LET j == CHOOSE j \in 1..(n - 1) : xp[j] <= x /\ x < xp[j + 1]
           IN  fp[j] + ((fp[j + 1] - fp[j]) * (x - xp[j])) \div (xp[j + 1] - xp[j])

\* dt[valid]*np.power(integ[valid]/dt[valid], 2.5), as 32*HIC^2 = (2*delta)^5/d^3
Power25(integ2, d) == [num |-> integ2 * integ2 * integ2 * integ2 * integ2,
                       den |-> d * d * d]

\* the initial score 0 of maxHIC = (0, 0, 0)
ZeroHIC == [num |-> 0, den |-> 1]

\* float comparison of two HIC values
HicLess(a, b) == a.num * b.den < b.num * a.den
HicEq(a, b) == a.num * b.den = b.num * a.den

\* a[valid]: the entries of a at the positions where valid holds, in order
Mask(a, valid) ==
  LET F[k \in 0..Len(a)] ==
        IF k = 0 THEN <<>>
        ELSE IF valid[k] THEN Append(F[k - 1], a[k]) ELSE F[k - 1]
  IN  F[Len(a)]

\* np.argmax(h): the first position of the largest entry (1-based here)
argmax(h) ==
  CHOOSE k \in 1..Len(h) :
    /\ \A m \in 1..Len(h) : ~HicLess(h[k], h[m])
    /\ \A m \in 1..(k - 1) : HicLess(h[m], h[k])

\* Python's tuple comparison a < b on (HIC, t1, t2)
TupleLess(a, b) ==
  \/ HicLess(a[1], b[1])
  \/ HicEq(a[1], b[1]) /\ a[2] < b[2]
  \/ HicEq(a[1], b[1]) /\ a[2] = b[2] /\ a[3] < b[3]

\* max comparing the HIC values alone
maxByScore(a, b) == IF HicLess(a[1], b[1]) THEN b ELSE a

\* Python's max(a, b): the first argument unless the second is greater
max(a, b) == IF TupleLess(a, b) THEN b ELSE a

\* ------------------------------------------------------- calculate_HIC body
\* Candidate with valid = integ >= 0
CandidateNonNegative(t1, t2, integ, dts) ==
  LET valid == Array([k \in 1..Len(integ) |-> integ[k] >= 0])
      dv    == Mask(dts, valid)
      iv    == Mask(integ, valid)
      HIC   == Array([k \in 1..Len(dv) |-> Power25(iv[k], dv[k])])
  IN  IF \E k \in 1..Len(integ) : valid[k]
      THEN <<HIC[argmax(HIC)], t1, t2[argmax(HIC)]>>
      ELSE <<>>

\* lines 56-60 without the max: the tuple (HIC[amax], t1, t2[amax]) of one
\* direction, or <<>> when np.any(valid) is false.  HIC is computed on the
\* masked arrays, so amax is a position of the masked arrays; t2 is not masked.
Candidate(t1, t2, integ, dts) ==
  LET valid == Array([k \in 1..Len(integ) |-> integ[k] > 0])
  IN  IF \E k \in 1..Len(integ) : valid[k]
      THEN LET dv   == Mask(dts, valid)
               iv   == Mask(integ, valid)
               HIC  == Array([k \in 1..Len(dv) |-> Power25(iv[k], dv[k])])
               amax == argmax(HIC)
           IN  <<HIC[amax], t1, t2[amax]>>
      ELSE <<>>

\* one pass of "for direction in 1, -1" for the window start t1
Direction(best, t1, t2, integ, dts) ==
  LET c == Candidate(t1, t2, integ, dts)
  IN  IF c = <<>> THEN best ELSE max(best, c)

\* t2 = t1 + dt
EndTimes(t1, dts) == Array([m \in 1..Len(dts) |-> t1 + dts[m]])

\* integ = np.interp(x=t2, xp=time, fp=cumintegral) - i1, times direction
Integ(t2, i1, direction, tm, cum) ==
  Array([m \in 1..Len(t2) |-> direction * (interp(t2[m], tm, cum) - i1)])

\* ScanSample without the pass for direction -1
ScanSampleOneDirection(best, k, tm, cum, dts) ==
  Direction(best, tm[k], EndTimes(tm[k], dts),
            Integ(EndTimes(tm[k], dts), cum[k], 1, tm, cum), dts)

\* the body of "for t1, i1 in zip(time, cumintegral)" for sample k:
\* direction 1, then integ *= -1 and direction -1
ScanSample(best, k, tm, cum, dts) ==
  LET t1 == tm[k]
      i1 == cum[k]
      t2 == EndTimes(t1, dts)
      b1 == Direction(best, t1, t2, Integ(t2, i1, 1, tm, cum), dts)
  IN  Direction(b1, t1, t2, Integ(t2, i1, -1, tm, cum), dts)

RECURSIVE ScanFrom(_, _, _, _, _)
ScanFrom(best, k, tm, cum, dts) ==
  IF k > Len(tm) THEN best
  ELSE ScanFrom(ScanSample(best, k, tm, cum, dts), k + 1, tm, cum, dts)

\* the second assert as tmax >= tmin
WindowOkLoose(tmn, tmx) == tmn > 0 /\ tmx >= tmn

\* assert tmin > 0; assert tmax > tmin
WindowOk(tmn, tmx) == tmn > 0 /\ tmx > tmn

\* calculate_HIC(time, g, tmax, tmin) as a function of its arguments:
\* the returned tuple, or "AssertionError"
calculate_HIC(tm, acc, tmx, tmn) ==
  IF WindowOk(tmn, tmx)
  THEN ScanFrom(<<ZeroHIC, 0, 0>>, 1, tm, cumtrapz(acc, tm, Len(tm)), linspace(tmn, tmx))
  ELSE "AssertionError"

\* ------------------------------------------------------------ input domain
GValues == {-2, -1, 0, 1, 2}
Gaps == {1, 2}
TminValues == {-1, 0, 1, 2}
StepValues == {-1, 0, 1}     \* tmax = tmin + step * (NumSteps - 1)
StartTimes == {0, 1}

RECURSIVE TimeSeries(_)
\* the strictly increasing series of n sample times
TimeSeries(n) ==
  IF n = 1 THEN {<<t0>> : t0 \in StartTimes}
  ELSE {Append(s, s[n - 1] + gap) : s \in TimeSeries(n - 1), gap \in Gaps}

\* ------------------------------------------------- calculate_HIC, stepwise
Init ==
  /\ \E n \in 1..MaxSamples :
       /\ time \in TimeSeries(n)
       /\ g \in [1..n -> GValues]
  /\ tmin \in TminValues
  /\ \E step \in StepValues : tmax = tmin + step * (NumSteps - 1)
  /\ cumintegral = <<>>
  /\ dt = <<>>
  /\ maxHIC = <<ZeroHIC, 0, 0>>
  /\ i = 0
  /\ pc = "call"
  /\ displayed = "Part"
  /\ xyDataObjects = <<>>
  /\ curves = <<>>
  /\ timeUnit = "s"
  /\ ptmin = 0
  /\ ptmax = 0
  /\ loopCurves = <<>>
  /\ curveIdx = 0
  /\ reply = "None"
  /\ dialogs = <<>>
  /\ runs = 0
  /\ ppc = "idle"

Integrate ==
  /\ pc = "call"
  /\ cumintegral' = cumtrapz(g, time, Len(time))
  /\ pc' = "assert"
  /\ UNCHANGED <<time, g, tmax, tmin, dt, maxHIC, i, plotVars>>

AssertFails ==
  /\ pc = "assert"
  /\ ~WindowOk(tmin, tmax)
  /\ pc' = "raised"
  /\ UNCHANGED <<time, g, tmax, tmin, cumintegral, dt, maxHIC, i, plotVars>>

AssertPasses ==
  /\ pc = "assert"
  /\ WindowOk(tmin, tmax)
  /\ dt' = linspace(tmin, tmax)
  /\ maxHIC' = <<ZeroHIC, 0, 0>>
  /\ i' = 1
  /\ pc' = "loop"
  /\ UNCHANGED <<time, g, tmax, tmin, cumintegral, plotVars>>

Scan ==
  /\ pc = "loop"
  /\ i <= Len(time)
  /\ maxHIC' = ScanSample(maxHIC, i, time, cumintegral, dt)
  /\ i' = i + 1
  /\ UNCHANGED <<time, g, tmax, tmin, cumintegral, dt, pc, plotVars>>

Return ==
  /\ pc = "loop"
  /\ i > Len(time)
  /\ pc' = "done"
  /\ UNCHANGED <<time, g, tmax, tmin, cumintegral, dt, maxHIC, i, plotVars>>

Next == Integrate \/ AssertFails \/ AssertPasses \/ Scan \/ Return

Spec == Init /\ [][Next]_vars

\* ------------------------------------------------------------------ plotHIC
\* timeScale = {'s': 1, 'ms': 0.001}[timeUnit], as a fraction
timeScale(unit) == IF unit = "s" THEN [num |-> 1, den |-> 1]
                   ELSE [num |-> 1, den |-> 1000]

\* time, accel = np.asarray(curve.data.data).T; time *= timeScale
\* (the abscissae of the curves below are whole seconds in either unit)
Seconds(cv, unit) ==
  Array([k \in 1..Len(cv.data) |->
           (cv.data[k][1] * timeScale(unit).num) \div timeScale(unit).den])

\* accel/gs: the ordinates of the curves are held as multiples of gs
Accel(cv) == Array([k \in 1..Len(cv.data) |-> cv.data[k][2]])

\* np.diff(time)
diff(t) == Array([k \in 1..(Len(t) - 1) |-> t[k + 1] - t[k]])

\* Python's max of a non-empty sequence
MaxOf(q) == CHOOSE m \in {q[k] : k \in 1..Len(q)} : \A k \in 1..Len(q) : q[k] <= m

\* Coarse on the smallest step
CoarseByMinStep(t, tmn) ==
  \A k \in 1..(Len(t) - 1) : 5 * diff(t)[k] > tmn

\* maxdt > 0.2*tmin
Coarse(t, tmn) == 5 * MaxOf(diff(t)) > tmn

\* curve.data.name + ' HIC' + str(n)
HICName(base, n) == base \o " HIC" \o ToString(n)

\* the name loop left after its first pass
FindNFirst(base, n, keys) == n - 1

RECURSIVE FindN(_, _, _)
\* the "find unique name" loop entered with counter n: n -= 1 and the name
\* is formed, again while session.xyDataObjects has the name as a key
FindN(base, n, keys) ==
  IF HICName(base, n - 1) \in keys THEN FindN(base, n - 1, keys) ELSE n - 1

\* t1 /= timeScale: back to the user's units
UserUnits(t, unit) == (t * timeScale(unit).den) \div timeScale(unit).num

\* session.XYData(name=..., data=HICxy, ...) for the result r of calculate_HIC
HICData(cv, name, r, unit) ==
  [name |-> name,
   legendLabel |-> cv.legendLabel \o " HIC",
   sourceDescription |-> "HIC estimated from " \o cv.description,
   description |-> "",
   data |-> <<<<UserUnits(r[2], unit), ZeroHIC>>, <<UserUnits(r[2], unit), r[1]>>,
              <<UserUnits(r[3], unit), r[1]>>, <<UserUnits(r[3], unit), ZeroHIC>>>>,
   xType |-> cv.xType,
   yType |-> "NONE"]

\* the curve the loop is at
curve == loopCurves[curveIdx]

\* ---- the session plotHIC is called in
\* an XYData object of the plot; abscissae sec are given in seconds
SourceCurve(name, xType, yType, sec, acc, unit) ==
  [name |-> name, legendLabel |-> name, sourceDescription |-> "",
   description |-> "history of " \o name,
   data |-> [k \in 1..Len(sec) |->
               <<(sec[k] * timeScale(unit).den) \div timeScale(unit).num, acc[k]>>],
   xType |-> xType, yType |-> yType]

CurvePool(unit) ==
  { SourceCurve("A", "TIME", "ACCELERATION", <<0, 1, 2>>, <<0, 2, 0>>, unit),
    SourceCurve("A", "TIME", "ACCELERATION", <<1, 3>>, <<-1, -1>>, unit),
    SourceCurve("B", "TIME", "ACCELERATION", <<0, 1, 3>>, <<1, 0, -2>>, unit),
    SourceCurve("S", "TIME", "ACCELERATION", <<0>>, <<1>>, unit),
    SourceCurve("F", "FREQUENCY", "ACCELERATION", <<0, 1, 2>>, <<1, 1, 1>>, unit),
    SourceCurve("V", "TIME", "VELOCITY", <<0, 1, 2>>, <<1, 1, 1>>, unit) }

RECURSIVE Charts(_, _)
\* the charts of n curves
Charts(n, unit) ==
  IF n = 0 THEN {<<>>}
  ELSE {Append(ch, cv) : ch \in Charts(n - 1, unit), cv \in CurvePool(unit)}

\* an XYData object the session holds before plotHIC runs
Stored(name) ==
  [name |-> name, legendLabel |-> name, sourceDescription |-> "",
   description |-> "kept from an earlier session", data |-> <<>>,
   xType |-> "TIME", yType |-> "NONE"]

InitialSessions ==
  { <<>>,
    [nm \in {"A HIC-1", "A HIC-3", "B HIC-1"} |-> Stored(nm)] }

\* tmin, tmax of the call; tmax = tmin + NumSteps - 1 or tmax = tmin
PlotWindows == {<<tmn, tmn + step * (NumSteps - 1)>> : tmn \in {0, 1, 5}, step \in {0, 1}}

PlotInit ==
  /\ time = <<>> /\ g = <<>> /\ tmax = 0 /\ tmin = 0
  /\ cumintegral = <<>> /\ dt = <<>> /\ maxHIC = <<ZeroHIC, 0, 0>>
  /\ i = 0 /\ pc = "idle"
  /\ timeUnit \in {"s", "ms"}
  /\ \E w \in PlotWindows : ptmin = w[1] /\ ptmax = w[2]
  /\ displayed \in {"XYPlot", "Part"}
  /\ IF displayed = "XYPlot"
     THEN \E n \in 1..MaxCurves : curves \in Charts(n, timeUnit)
     ELSE curves = <<>>
  /\ xyDataObjects \in InitialSessions
  /\ loopCurves = <<>>
  /\ curveIdx = 0
  /\ reply = "None"
  /\ dialogs = <<>>
  /\ runs = 0
  /\ ppc = "idle"

\* lines 80-84: nothing with charts is displayed
NoPlot ==
  /\ ppc # "loop"
  /\ runs < MaxRuns
  /\ displayed # "XYPlot"
  /\ dialogs' = <<[text |-> "You must first display an XY Plot of acceleration",
                   curve |-> 0]>>
  /\ runs' = runs + 1
  /\ ppc' = "returned"
  /\ UNCHANGED <<calcVars, displayed, xyDataObjects, curves, timeUnit, ptmin, ptmax,
                 loopCurves, curveIdx, reply>>

\* lines 85-91: the loop over chart.curves.values() starts
StartLoop ==
  /\ ppc # "loop"
  /\ runs < MaxRuns
  /\ displayed = "XYPlot"
  /\ loopCurves' = curves
  /\ curveIdx' = 1
  /\ reply' = "None"
  /\ dialogs' = <<>>
  /\ runs' = runs + 1
  /\ ppc' = "loop"
  /\ UNCHANGED <<calcVars, displayed, xyDataObjects, curves, timeUnit, ptmin, ptmax>>

AtCurve == ppc = "loop" /\ curveIdx <= Len(loopCurves)

\* lines 92-93
SkipNotTime ==
  /\ AtCurve
  /\ curve.xType # "TIME"
  /\ curveIdx' = curveIdx + 1
  /\ UNCHANGED <<calcVars, displayed, xyDataObjects, curves, timeUnit, ptmin, ptmax,
                 loopCurves, reply, dialogs, runs, ppc>>

\* lines 94-95
SkipNotAcceleration ==
  /\ AtCurve
  /\ curve.xType = "TIME"
  /\ curve.yType # "ACCELERATION"
  /\ curveIdx' = curveIdx + 1
  /\ UNCHANGED <<calcVars, displayed, xyDataObjects, curves, timeUnit, ptmin, ptmax,
                 loopCurves, reply, dialogs, runs, ppc>>

Eligible(cv) == cv.xType = "TIME" /\ cv.yType = "ACCELERATION"

\* line 99 on a curve of one point: np.diff is empty and max raises ValueError
DiffRaises ==
  /\ AtCurve
  /\ Eligible(curve)
  /\ Len(curve.data) < 2
  /\ ppc' = "raised"
  /\ UNCHANGED <<calcVars, displayed, xyDataObjects, curves, timeUnit, ptmin, ptmax,
                 loopCurves, curveIdx, reply, dialogs, runs>>

\* line 100: the question is due
MustAsk ==
  /\ AtCurve
  /\ Eligible(curve)
  /\ Len(curve.data) >= 2
  /\ reply = "None"
  /\ Coarse(Seconds(curve, timeUnit), ptmin)

Question ==
  [text |-> "Time increment is coarse. Continue calculation?", curve |-> curveIdx]

\* lines 107-132: name, calculate_HIC, the new XYData and Curve, the chart;
\* an AssertionError of calculate_HIC ends plotHIC before anything is created
AddHIC ==
  LET name == HICName(curve.name, FindN(curve.name, 0, DOMAIN xyDataObjects))
      r    == calculate_HIC(Seconds(curve, timeUnit), Accel(curve), ptmax, ptmin)
  IN  IF WindowOk(ptmin, ptmax)
      THEN /\ xyDataObjects' = (name :> HICData(curve, name, r, timeUnit)) @@ xyDataObjects
           /\ curves' = Append(curves, HICData(curve, name, r, timeUnit))
           /\ curveIdx' = curveIdx + 1
           /\ ppc' = ppc
      ELSE /\ ppc' = "raised"
           /\ UNCHANGED <<xyDataObjects, curves, curveIdx>>

\* reply NO with continue in place of break
WarnNoContinue ==
  /\ MustAsk
  /\ reply' = "NO"
  /\ dialogs' = Append(dialogs, Question)
  /\ curveIdx' = curveIdx + 1
  /\ UNCHANGED <<calcVars, displayed, xyDataObjects, curves, timeUnit, ptmin, ptmax,
                 loopCurves, runs, ppc>>

\* lines 100-105, reply NO: break
WarnNo ==
  /\ MustAsk
  /\ reply' = "NO"
  /\ dialogs' = Append(dialogs, Question)
  /\ ppc' = "returned"
  /\ UNCHANGED <<calcVars, displayed, xyDataObjects, curves, timeUnit, ptmin, ptmax,
                 loopCurves, curveIdx, runs>>

\* lines 100-132, reply YES
WarnYes ==
  /\ MustAsk
  /\ reply' = "YES"
  /\ dialogs' = Append(dialogs, Question)
  /\ AddHIC
  /\ UNCHANGED <<calcVars, displayed, timeUnit, ptmin, ptmax, loopCurves, runs>>

\* lines 100-132, no question: the step is fine or the question was answered
NoWarn ==
  /\ AtCurve
  /\ Eligible(curve)
  /\ Len(curve.data) >= 2
  /\ ~(reply = "None" /\ Coarse(Seconds(curve, timeUnit), ptmin))
  /\ AddHIC
  /\ UNCHANGED <<calcVars, displayed, timeUnit, ptmin, ptmax, loopCurves, reply,
                 dialogs, runs>>

\* the for loop is exhausted
LoopEnd ==
  /\ ppc = "loop"
  /\ curveIdx > Len(loopCurves)
  /\ ppc' = "returned"
  /\ UNCHANGED <<calcVars, displayed, xyDataObjects, curves, timeUnit, ptmin, ptmax,
                 loopCurves, curveIdx, reply, dialogs, runs>>

PlotNext ==
  \/ NoPlot \/ StartLoop \/ SkipNotTime \/ SkipNotAcceleration \/ DiffRaises
  \/ WarnNo \/ WarnYes \/ NoWarn \/ LoopEnd

PlotSpec == PlotInit /\ [][PlotNext]_vars

\* ------------------------------------------------ properties of calculate_HIC
\* the returned tuple (HIC, t1, t2)
Returned == pc = "done"
HICpositive == maxHIC[1].num > 0
Sentinel == <<ZeroHIC, 0, 0>>
Last == Len(time)

\* the windows the search ranges over: start sample k, duration index m
Windows == {<<k, m>> : k \in 1..Len(time), m \in 1..NumSteps}
\* |I(time[k] + d) - I(time[k])| (doubled) for window w, I the clamped
\* interpolation of the cumulative integral
AbsDelta(w) ==
  LET delta == interp(time[w[1]] + dt[w[2]], time, cumintegral) - cumintegral[w[1]]
  IN  IF delta < 0 THEN 0 - delta ELSE delta
\* d * (|delta| / d)^2.5 for window w
WindowScore(w) == Power25(AbsDelta(w), dt[w[2]])

\* C1 as stated: every returned triple has t2 - t1 in [tmin, tmax], the
\* no-window result included.
C1_DurationInBoundsAlways ==
  Returned => (tmin <= maxHIC[3] - maxHIC[2] /\ maxHIC[3] - maxHIC[2] <= tmax)

\* C1 amended: a returned triple with HIC > 0 has t2 - t1 in [tmin, tmax];
\* the no-window result is (0, 0, 0), whose duration 0 is below tmin.
C1_DurationInBounds ==
  Returned =>
    IF HICpositive
    THEN tmin <= maxHIC[3] - maxHIC[2] /\ maxHIC[3] - maxHIC[2] <= tmax
    ELSE maxHIC = Sentinel /\ maxHIC[3] - maxHIC[2] < tmin

C1_Witness ==
  /\ Returned /\ HICpositive
  /\ tmin < maxHIC[3] - maxHIC[2]
  /\ maxHIC[3] - maxHIC[2] < tmax

\* C2 as stated: t1 <= t2 and both lie in [time[0], time[last]].
C2_TimesInSampleRange ==
  Returned =>
    /\ maxHIC[2] <= maxHIC[3]
    /\ time[1] <= maxHIC[2] /\ maxHIC[2] <= time[Last]
    /\ time[1] <= maxHIC[3] /\ maxHIC[3] <= time[Last]

\* C2 amended: t1 <= t2 always; when HIC > 0, t1 is a sample time before the
\* last sample and t1 < t2 <= t1 + tmax, so t2 may pass the last sample time
\* by less than tmax; the no-window result (0, 0, 0) ignores the sample range.
C2_TimesBounded ==
  Returned =>
    /\ maxHIC[2] <= maxHIC[3]
    /\ IF HICpositive
       THEN /\ \E k \in 1..(Last - 1) : maxHIC[2] = time[k]
            /\ maxHIC[2] < maxHIC[3]
            /\ maxHIC[3] <= maxHIC[2] + tmax
            /\ maxHIC[3] < time[Last] + tmax
       ELSE maxHIC[2] = 0 /\ maxHIC[3] = 0

C2_Witness == Returned /\ HICpositive /\ maxHIC[3] > time[Last]

\* C3 as stated: no result is returned when tmin <= 0, when tmax <= tmin, or
\* when the series has fewer than 2 samples.
C3_RejectsMalformed ==
  Returned => (tmin > 0 /\ tmax > tmin /\ Len(time) >= 2)

\* C3 amended: the call raises (AssertionError), returning nothing, exactly
\* when tmin <= 0 or tmax <= tmin; a single-sample series is not rejected and
\* returns (0, 0, 0).
C3_RejectsBadWindow ==
  /\ pc \in {"loop", "done"} => (tmin > 0 /\ tmax > tmin)
  /\ pc = "raised" => (tmin <= 0 \/ tmax <= tmin)
  /\ (Returned /\ Len(time) = 1) => maxHIC = Sentinel

C3_Witness == pc = "raised" /\ tmin > 0 /\ tmax = tmin

\* -g
Negated(acc) == Array([k \in 1..Len(acc) |-> 0 - acc[k]])
TripleEq(a, b) == HicEq(a[1], b[1]) /\ a[2] = b[2] /\ a[3] = b[3]

\* C4: calculate_HIC(time, g) and calculate_HIC(time, -g) return the same
\* triple (score, t1 and t2).
C4_SignSymmetry ==
  Returned =>
    LET mirrored == calculate_HIC(time, Negated(g), tmax, tmin)
    IN  TripleEq(maxHIC, mirrored)

C4_Witness ==
  /\ Returned /\ HICpositive
  /\ \E k \in 1..Last : g[k] > 0
  /\ \E k \in 1..Last : g[k] < 0

\* C6: if no window has a non-zero integral difference the result is exactly
\* (0, 0, 0), and if some window has one the returned HIC is positive.
C6_NoSignalSentinel ==
  Returned =>
    IF \A w \in Windows : AbsDelta(w) = 0
    THEN maxHIC = Sentinel
    ELSE HICpositive

C6_Witness ==
  /\ Returned /\ Last >= 2 /\ time[1] > 0
  /\ \A k \in 1..Last : g[k] = 0
  /\ maxHIC = Sentinel

\* C7: the returned HIC is the largest window score, no window scores higher,
\* and the returned (t1, t2) is a window attaining it.
C7_Maximality ==
  Returned =>
    /\ \A w \in Windows : ~HicLess(maxHIC[1], WindowScore(w))
    /\ HICpositive =>
         \E w \in Windows :
           /\ maxHIC[2] = time[w[1]]
           /\ maxHIC[3] = time[w[1]] + dt[w[2]]
           /\ HicEq(WindowScore(w), maxHIC[1])
    /\ ~HICpositive => \A w \in Windows : AbsDelta(w) = 0

\* the score part of C7 alone
C7_ScoreIsMaximum ==
  Returned =>
    /\ \A w \in Windows : ~HicLess(maxHIC[1], WindowScore(w))
    /\ HICpositive => \E w \in Windows : HicEq(WindowScore(w), maxHIC[1])

\* the candidates the loop offers to the running maximum
Offers ==
  {c \in {Candidate(time[k], EndTimes(time[k], dt),
                    Integ(EndTimes(time[k], dt), cumintegral[k], direction,
                          time, cumintegral), dt) :
            k \in 1..Len(time), direction \in {1, -1}} : c # <<>>}

\* C8 as stated: a candidate whose score equals the current best never
\* replaces it.
C8_FirstEncounteredWins ==
  [][(pc = "loop" /\ HicEq(maxHIC'[1], maxHIC[1])) => maxHIC' = maxHIC]_vars

\* C8 amended: the running maximum is compared as a Python tuple
\* (score, t1, t2), so among the offered candidates of equal score the one
\* with the largest t1 (then the largest t2) is returned: an equal score with
\* a later start time replaces the current best.
C8_TupleOrderWins ==
  Returned =>
    \A c \in Offers :
      HicEq(c[1], maxHIC[1]) =>
        (c[2] < maxHIC[2] \/ (c[2] = maxHIC[2] /\ c[3] <= maxHIC[3]))

C8_Witness ==
  /\ Returned
  /\ \E c \in Offers : HicEq(c[1], maxHIC[1]) /\ c[2] < maxHIC[2]

\* ------------------------------------------------------ properties of plotHIC
\* a series whose largest step between consecutive sample times exceeds 0.2*tmin
CoarseSeries(cv) ==
  \E k \in 1..(Len(cv.data) - 1) :
    5 * (Seconds(cv, timeUnit)[k + 1] - Seconds(cv, timeUnit)[k]) > ptmin

\* a step of the loop that computes a HIC result and adds its curve
AddsHIC == ppc = "loop" /\ curves' # curves

\* C5 as stated: every HIC result computed for a coarse series (the second
\* and later coarse curves of a run included) is preceded by the
\* coarse-sampling warning for that series.
C5_EveryCoarseCurveWarns ==
  [][(AddsHIC /\ CoarseSeries(curve)) => dialogs' # dialogs]_vars

\* C5 amended: plotHIC computes no HIC result for a coarse series unless the
\* coarse-sampling question was put at that curve or at an earlier curve of
\* the same invocation and answered YES; later coarse curves of the run are
\* computed without a new question.
C5_CoarseNeedsOneYes ==
  [][(AddsHIC /\ CoarseSeries(curve)) =>
       /\ Len(dialogs') = 1
       /\ dialogs'[1].curve <= curveIdx
       /\ CoarseSeries(loopCurves[dialogs'[1].curve])
       /\ reply' = "YES"]_vars

C5_Witness ==
  /\ ppc = "loop" /\ reply = "YES"
  /\ Len(curves) - Len(loopCurves) >= 2
  /\ \E k \in 1..(curveIdx - 1) :
       k > dialogs[1].curve /\ Eligible(loopCurves[k]) /\ CoarseSeries(loopCurves[k])

\* HIC curves added to the chart by the current invocation
Added == Len(curves) - Len(loopCurves)
EligibleIn(lo, hi) == {k \in lo..hi : Eligible(loopCurves[k])}

C10_FreshNames ==
  /\ [][xyDataObjects' # xyDataObjects =>
          /\ \A k \in DOMAIN xyDataObjects :
               k \in DOMAIN xyDataObjects' /\ xyDataObjects'[k] = xyDataObjects[k]
          /\ \E n \in 1..(Cardinality(DOMAIN xyDataObjects) + 1) :
               /\ DOMAIN xyDataObjects' \ DOMAIN xyDataObjects
                    = {curve.name \o " HIC-" \o ToString(n)}
               /\ \A m \in 1..(n - 1) :
                    (curve.name \o " HIC-" \o ToString(m)) \in DOMAIN xyDataObjects]_vars
  /\ [](\A j, k \in 1..Len(curves) :
          (j < k /\ curves[j].yType = "NONE" /\ curves[k].yType = "NONE")
            => curves[j].name # curves[k].name)

C10_Witness ==
  /\ runs = 2
  /\ {"A HIC-1", "A HIC-2", "A HIC-3", "A HIC-4", "A HIC-5"} \subseteq DOMAIN xyDataObjects
  /\ \E j, k \in 1..Len(curves) :
       j < k /\ curves[j].name = "A HIC-2" /\ curves[k].name = "A HIC-4"

====
